---- MODULE Spec2Model ----
(***************************************************************************)
(* Cross-network relay orchestrator (RelayManager, MainnetRelay) and the   *)
(* synthetic chain simulator (MockProvider, MockWebSocketProvider).        *)
(*                                                                         *)
(* One step of the model is one run-to-completion turn of the JavaScript   *)
(* event loop: a call, timer callback or promise continuation runs up to   *)
(* its next suspension on a timer or on the network.  An await on a value  *)
(* that the simulator computes synchronously (every query of the mock      *)
(* provider) is not a suspension point: only microtasks run before the     *)
(* continuation, so no timer or network event can come between.            *)
(***************************************************************************)
EXTENDS Naturals, Sequences, FiniteSets, Bags, TLC

(***************************************************************************)
(* Bounds of the model.                                                    *)
(***************************************************************************)
MaxBlock == 2
MaxDisconnects == 1
MaxSends == 1
MaxTxs == 3
MaxCalls == 2
MaxShutdowns == 1
MaxPeer == 2
MaxSetups == 3
MaxTime == 5
MaxStopping == 1
MaxRepeats == 1
MaxRelayCalls == 1

(***************************************************************************)
(* Program constants.                                                      *)
(***************************************************************************)
MaxRetries == 3
RetryAttempts == 3
MaxTxPerBlock == 3
MaxAttempts == 5
DefaultChainId == 138
TargetChainId == 1
MaxGasPrice == 100
MaxReconnectAttempts == 5
ReconnectDelay == 1000
MinReconnectionDelay == 1000
MnMaxRetries == 3

VARIABLES
    \* MockProvider
    blockNumber,        \* this.blockNumber
    transactions,       \* keys of this.transactions, in insertion order
    timers,             \* number of live setInterval timers
    interval,           \* this.interval holds a handle
    now,                \* last value read from Date.now()
    synthesized,        \* transactions synthesized so far
    sends,              \* sendTransaction calls on the simulator so far
    \* MockWebSocketProvider
    connected,          \* this.connected
    connectionAttempts, \* this.connectionAttempts
    pendingConnects,    \* connect() calls suspended in detectNetwork, oldest first
    forwarders,         \* listeners connect() has put on mockProvider 'block'
    disconnects,        \* disconnect() calls so far
    blockEvents,        \* block numbers delivered to a subscriber of 'block'
    rpc,                \* the last call of send() or of a guarded method, and how it ended
    \* RelayManager
    srcChainCfg,        \* config.sourceNetwork.chainId (0: not set)
    initPc,             \* position of initialize() / waitForConnections()
    attempts,           \* waitForConnections: attempts
    sourceVerified,     \* waitForConnections: sourceVerified
    targetVerified,     \* waitForConnections: targetVerified
    connectionState,    \* this.connectionState
    metrics,            \* this.metrics
    tasks,              \* handleNewBlock invocations in flight (a bag)
    stopped,            \* stop() has completed
    relayCall,          \* relayTransaction calls from outside so far, and the last hash
    srcTx,              \* a source transaction, as provider.getTransaction returns it
    request,            \* the submission request relayTransaction has built from it
    mrPc,               \* MockRelay: "new", "connecting", "running" or "stopped"
    mrMetrics,          \* MockRelay: this.metrics
    mrTasks,            \* MockRelay: the processTransaction calls in simulateRelayToMainnet
    \* target network, as observed
    submitted,          \* bag of source hashes, one copy per wallet.sendTransaction call
    succeeded,          \* source hashes relayed with receipt status 1
    failedChains,       \* submission counts of relays that ended with every attempt failed
    reports,            \* <<side, chain id>> answers to eth_chainId seen by waitForConnections
    \* MainnetRelay
    mnInit,             \* this.isInitialized
    mnPc,               \* position of relayTransaction()
    mnTx,               \* its argument
    mnAttempts,         \* its local attempts
    mnSends,            \* wallet.sendTransaction calls so far (names the hash of the next)
    mnSentNow,          \* wallet.sendTransaction calls of the current relayTransaction()
    mnStore,            \* keys of this.transactions
    mnResult,           \* how the last relayTransaction() ended
    mnOk,               \* transactionCounter, label success
    mnKo,               \* transactionCounter, label failure
    mnCalls,            \* relayTransaction() calls so far
    mnOver,             \* the current call met a gas price above the ceiling
    mnClosing,          \* shutdown() calls suspended in metrics.shutdown()
    mnShutdowns,        \* shutdown() calls so far
    mnRelayed,          \* arguments of the relayTransaction() calls that succeeded
    peerStore,          \* keys of this.transactions of a second MainnetRelay
    \* TransactionMonitor
    tmRunning,          \* this.isRunning
    tmAttempts,         \* this.reconnectAttempts
    tmDelay,            \* this.reconnectDelay
    tmNow,              \* the clock, in ms
    tmTimers,           \* the times the pending reconnection timers fire at
    tmSockets,          \* the websockets set up, oldest first; the last is this.provider's
    tmStopping,         \* stop() calls suspended in metrics.shutdown()
    tmHalted,           \* handleReconnection has found the ceiling reached
    tmSchedule          \* delays of the timers set since the last 'open'

simVars == <<blockNumber, transactions, timers, interval, now, synthesized, sends>>
wsVars == <<connected, connectionAttempts, pendingConnects, forwarders, disconnects,
            blockEvents>>
waitVars == <<attempts, sourceVerified, targetVerified, reports>>
rmVars == <<srcChainCfg, initPc, connectionState, metrics, tasks, stopped>>
tgtVars == <<submitted, succeeded, failedChains>>
mnAux == <<mnClosing, mnShutdowns, mnRelayed, peerStore>>
mnVars == <<mnInit, mnPc, mnTx, mnAttempts, mnSends, mnSentNow, mnStore, mnResult,
            mnOk, mnKo, mnCalls, mnOver, mnAux>>
tmVars == <<tmRunning, tmAttempts, tmDelay, tmNow, tmTimers, tmSockets, tmStopping,
            tmHalted, tmSchedule>>
fmtVars == <<srcTx, request>>
mrVars == <<mrPc, mrMetrics, mrTasks>>
vars == <<simVars, wsVars, waitVars, rmVars, tgtVars, mnVars, tmVars, rpc, relayCall,
          fmtVars, mrVars>>

\* What the RelayManager and its simulator leave alone, and what MainnetRelay does.
offRelay == <<mnVars, tmVars, rpc, relayCall, fmtVars, mrVars>>
offMainnet == <<simVars, wsVars, waitVars, rmVars, tgtVars, tmVars, rpc, relayCall, fmtVars, mrVars>>
offMonitor == <<simVars, wsVars, waitVars, rmVars, tgtVars, mnVars, rpc, relayCall, fmtVars, mrVars>>
offCall == <<mnVars, tmVars, rpc, fmtVars, mrVars>>
offMock == <<waitVars, rmVars, tgtVars, mnVars, tmVars, rpc, relayCall, fmtVars>>
offFormat == <<simVars, wsVars, waitVars, rmVars, tgtVars, mnVars, tmVars, rpc, relayCall,
               mrVars>>

(***************************************************************************)
(* Helpers.                                                                *)
(***************************************************************************)
SeqToSet(s) == {s[i] : i \in 1..Len(s)}

Repeat(x, n) == [i \in 1..n |-> x]

\* `0x${n.toString(16)}`: the hexadecimal digits of n, most significant first.
RECURSIVE ToHex(_)
ToHex(n) == IF n < 16 THEN <<n>> ELSE Append(ToHex(n \div 16), n % 16)

\* parseInt(hex, 16)
RECURSIVE ParseHex(_)
ParseHex(ds) ==
    IF ds = <<>> THEN 0
    ELSE ParseHex(SubSeq(ds, 1, Len(ds) - 1)) * 16 + ds[Len(ds)]

\* `0x${Buffer.from(Date.now().toString()).toString('hex').padStart(64, '0')}`:
\* the decimal digits of the clock value, one byte each, left-padded.  The
\* encoding is one-to-one on clock values, so a hash is named by its clock value.
MockHash(ms) == ms

(***************************************************************************)
(* MockProvider.                                                           *)
(***************************************************************************)
\* this.transactions.set(hash, tx): a new key goes last, a known key keeps its place.
MapSet(keys, h) == IF h \in SeqToSet(keys) THEN keys ELSE Append(keys, h)

RECURSIVE MapSetAll(_, _)
MapSetAll(keys, hs) ==
    IF hs = <<>> THEN keys ELSE MapSetAll(MapSet(keys, Head(hs)), Tail(hs))

\* The clock values read by the generateMockTransaction calls of one tick: the
\* tick is a later millisecond than the last read; within the loop the clock
\* either stays or moves on by one.
TickStamps(n, b2, b3) == SubSeq(<<now + 1, now + 1 + b2, now + 1 + b2 + b3>>, 1, n)

\* getBlock(n): the current block number and every key of the transaction map.
GetBlock(keys, number) == [number |-> number, transactions |-> keys]

\* stopBlockProduction
StopBlockProduction ==
    /\ timers' = IF interval THEN timers - 1 ELSE timers
    /\ interval' = FALSE


(***************************************************************************)
(* RelayManager: relaying one transaction.                                 *)
(*                                                                         *)
(* A task is one handleNewBlock invocation suspended inside the relay of   *)
(* its transaction cur: "inflight" between the call of                     *)
(* wallet.sendTransaction and the receipt (or the error), "delay" in       *)
(* retryTransaction's timer.  subs counts the submissions made for cur     *)
(* since handleNewBlock reached it; clean says that no attempt for cur     *)
(* failed before its submission; blk is the block number handleNewBlock    *)
(* was called with.                                                        *)
(***************************************************************************)
Task(b, h, rest, pc, subs, clean) ==
    [blk |-> b, cur |-> h, rest |-> rest, pc |-> pc, subs |-> subs, clean |-> clean]

\* What a turn of a task leaves: the metrics, the task if it is suspended
\* again, the hashes submitted to the target, and the submission counts of the
\* relays that ended in this turn with every attempt failed.
Turn(m, ts, sub, ended) == [m |-> m, ts |-> ts, sub |-> sub, ended |-> ended]

\* The source provider as a turn finds it: this.connected and the keys of the
\* transaction map.
Source(conn, keys) == [connected |-> conn, keys |-> keys]

\* shouldRetry answering yes whatever the count of retries.
ShouldRetryAlways(m) == TRUE

\* shouldRetry(txHash)
ShouldRetry(m) == m.retries < RetryAttempts

RECURSIVE RelayTransaction(_, _, _, _, _, _, _)
RECURSIVE RelayFailed(_, _, _, _, _, _, _)
RECURSIVE NextInBlock(_, _, _, _)

\* RelayTransaction taking an absent source transaction for a failure.
RelayTransactionAbsentFails(m, b, h, rest, subs, clean, conn) ==
    LET m1 == [m EXCEPT !.transactions = @ + 1]
    IN  IF ~conn.connected \/ h \notin SeqToSet(conn.keys)
        THEN RelayFailed(m1, b, h, rest, subs, FALSE, conn)
        ELSE Turn(m1, <<Task(b, h, rest, "inflight", subs + 1, clean)>>, <<h>>, {})

\* relayTransaction(h) on the source conn, up to its first suspension.  getTransaction throws when
\* the provider is not connected and answers null for an unknown hash.
RelayTransaction(m, b, h, rest, subs, clean, conn) ==
    LET m1 == [m EXCEPT !.transactions = @ + 1]
    IN  IF ~conn.connected THEN RelayFailed(m1, b, h, rest, subs, FALSE, conn)
        ELSE IF h \notin SeqToSet(conn.keys) THEN NextInBlock(m1, b, rest, conn)
        ELSE Turn(m1, <<Task(b, h, rest, "inflight", subs + 1, clean)>>, <<h>>, {})

\* RelayFailed counting the failure again when it gives up.
RelayFailedCountsTwice(m, b, h, rest, subs, clean, conn) ==
    LET m1 == [m EXCEPT !.failed = @ + 1]
    IN  IF ShouldRetry(m1)
        THEN Turn([m1 EXCEPT !.retries = @ + 1],
                  <<Task(b, h, rest, "delay", subs, clean)>>, <<>>, {})
        ELSE LET r == NextInBlock([m1 EXCEPT !.failed = @ + 1], b, rest, conn)
             IN  [r EXCEPT !.ended = @ \cup (IF clean THEN {subs} ELSE {})]

\* RelayFailed rethrowing once the retries are used up: handleNewBlock's loop
\* is left.
RelayFailedThrows(m, b, h, rest, subs, clean, conn) ==
    LET m1 == [m EXCEPT !.failed = @ + 1]
    IN  IF ShouldRetry(m1)
        THEN Turn([m1 EXCEPT !.retries = @ + 1],
                  <<Task(b, h, rest, "delay", subs, clean)>>, <<>>, {})
        ELSE Turn(m1, <<>>, <<>>, IF clean THEN {subs} ELSE {})

\* The catch block of relayTransaction(h).
RelayFailed(m, b, h, rest, subs, clean, conn) ==
    LET m1 == [m EXCEPT !.failed = @ + 1]
    IN  IF ShouldRetry(m1)
        THEN Turn([m1 EXCEPT !.retries = @ + 1],
                  <<Task(b, h, rest, "delay", subs, clean)>>, <<>>, {})
        ELSE LET r == NextInBlock(m1, b, rest, conn)
             IN  [r EXCEPT !.ended = @ \cup (IF clean THEN {subs} ELSE {})]

\* handleNewBlock's loop, after the relay of one transaction has returned.
NextInBlock(m, b, rest, conn) ==
    IF rest = <<>> THEN Turn(m, <<>>, <<>>, {})
    ELSE RelayTransaction(m, b, Head(rest), Tail(rest), 0, TRUE, conn)

\* handleNewBlock(n), once per block event delivered: k deliveries in one tick.
RECURSIVE HandleNewBlocks(_, _, _)
HandleNewBlocks(m, keys, k) ==
    IF k = 0 THEN Turn(m, <<>>, <<>>, {})
    ELSE LET one == NextInBlock(m, blockNumber + 1,
                                GetBlock(keys, blockNumber + 1).transactions,
                                Source(TRUE, keys))
             more == HandleNewBlocks(one.m, keys, k - 1)
         IN  Turn(more.m, one.ts \o more.ts, one.sub \o more.sub,
                  one.ended \cup more.ended)

SeqToBag(s) == [x \in SeqToSet(s) |-> Cardinality({i \in 1..Len(s) : s[i] = x})]

\* The RelayManager's listeners are on the provider (initialize has run).
Listening == initPc # "new"


(***************************************************************************)
(* MockWebSocketProvider.                                                  *)
(***************************************************************************)
\* How a call ends: with a value, or with an error thrown.
Ok(v) == [ok |-> TRUE, value |-> v]
NotConnected == [ok |-> FALSE, value |-> "Provider not connected"]
NotImplemented == [ok |-> FALSE, value |-> "Method not implemented"]
MaxAttemptsReached == [ok |-> FALSE, value |-> "Max connection attempts reached"]

\* The call c has ended with r.
Called(c, r) == rpc' = [flip |-> ~rpc.flip, call |-> c, result |-> r]

\* ConnectRefused letting one more attempt through.
ConnectRefusedAbove(att) == att > MaxRetries

\* connect(), up to the suspension in detectNetwork; refused (it throws) once
\* the attempt counter has reached maxRetries.
ConnectRefused(att) == att >= MaxRetries

\* connect(), by a caller outside the RelayManager.  A refused call emits
\* 'error', which has no listener, and throws.
Connect ==
    /\ ~Listening
    /\ IF ConnectRefused(connectionAttempts)
       THEN /\ Called("connect", MaxAttemptsReached)
            /\ UNCHANGED <<connectionAttempts, pendingConnects>>
       ELSE /\ connectionAttempts' = connectionAttempts + 1
            /\ pendingConnects' = Append(pendingConnects, "call")
            /\ UNCHANGED rpc
    /\ UNCHANGED <<simVars, connected, forwarders, disconnects, blockEvents,
                   waitVars, rmVars, tgtVars>>
    /\ UNCHANGED <<mnVars, tmVars, relayCall, fmtVars, mrVars>>

\* connect(), resumed after detectNetwork: the oldest suspended call goes on.
\* startBlockProduction overwrites this.interval; emit('connect') runs
\* handleConnect('source'); one more listener goes on mockProvider 'block'.
\* The call made by initialize() returns into waitForConnections, which sets
\* its locals and suspends in the 3 s timer.
ConnectDone ==
    /\ pendingConnects # <<>>
    /\ pendingConnects' = Tail(pendingConnects)
    /\ connected' = TRUE
    /\ timers' = timers + 1
    /\ interval' = TRUE
    /\ forwarders' = forwarders + 1
    /\ connectionState' = IF Listening THEN [connectionState EXCEPT !.source = TRUE]
                          ELSE connectionState
    /\ initPc' = IF Head(pendingConnects) = "init" THEN "settle" ELSE initPc
    /\ UNCHANGED <<blockNumber, transactions, now, synthesized, sends,
                   connectionAttempts, disconnects, blockEvents, waitVars,
                   srcChainCfg, metrics, tasks, stopped, tgtVars>>
    /\ UNCHANGED offRelay

\* HandleDisconnect counting twice.
HandleDisconnectTwice(m) == [m EXCEPT !.disconnections = @ + 2]

\* handleDisconnect(network): this.metrics.disconnections++
HandleDisconnect(m) == [m EXCEPT !.disconnections = @ + 1]

\* disconnect(): emit('disconnect') runs handleDisconnect('source') when the
\* RelayManager listens, which calls connect() again (the counter was just reset).
DisconnectEffect ==
    /\ connected' = FALSE
    /\ StopBlockProduction
    /\ disconnects' = disconnects + 1
    /\ IF Listening
       THEN /\ connectionState' = [connectionState EXCEPT !.source = FALSE]
            /\ metrics' = HandleDisconnect(metrics)
            /\ connectionAttempts' = IF ConnectRefused(0) THEN 0 ELSE 1
            /\ pendingConnects' = IF ConnectRefused(0) THEN pendingConnects
                                  ELSE Append(pendingConnects, "reconnect")
       ELSE /\ connectionAttempts' = 0
            /\ UNCHANGED <<connectionState, metrics, pendingConnects>>
    /\ UNCHANGED <<blockNumber, transactions, now, synthesized, sends, forwarders,
                   blockEvents, waitVars, srcChainCfg, initPc, tasks, tgtVars>>
    /\ UNCHANGED offRelay

\* disconnect(), by a caller outside the RelayManager.
Disconnect ==
    /\ ~stopped
    /\ disconnects < MaxDisconnects
    /\ DisconnectEffect
    /\ UNCHANGED stopped

\* disconnect() once more, on a provider that a disconnect() has left
\* disconnected.
DisconnectAgain ==
    /\ ~stopped
    /\ ~connected
    /\ disconnects >= 1
    /\ disconnects < MaxDisconnects + MaxRepeats
    /\ DisconnectEffect
    /\ UNCHANGED stopped

\* The chain id the source provider is built with: sourceConfig.chainId || 138.
SourceChainId == IF srcChainCfg = 0 THEN DefaultChainId ELSE srcChainCfg

\* EnsureConnected letting every call through.
EnsureConnectedSkipped(conn, r) == r

\* ensureConnected() at the head of a method whose body ends with r.
EnsureConnected(conn, r) == IF ~conn THEN NotConnected ELSE r

\* The method names send() is called with, one of them not supported, and the
\* hashes asked for.
Methods == {"eth_chainId", "eth_networkVersion", "net_version", "eth_blockNumber",
            "eth_getBlockByNumber", "eth_getTransactionByHash",
            "eth_getTransactionReceipt", "net_listening", "eth_syncing",
            "eth_gasPrice"}
Hashes == {0, 1}

\* The hashes a call of the method c may carry: one, when c reads no hash.
Params(c) ==
    IF c \in {"eth_getTransactionByHash", "eth_getTransactionReceipt",
              "getTransaction", "getTransactionReceipt"}
    THEN Hashes ELSE {0}

\* Dispatch answering false where the switch has no case.
DispatchLenient(method, h, chainId) ==
    IF method = "eth_chainId" THEN Ok(ToHex(chainId)) ELSE Ok(FALSE)

\* The switch of send(method, params); a transaction or a receipt is told by
\* whether it was found.
Dispatch(method, h, chainId) ==
    CASE method = "eth_chainId" -> Ok(ToHex(chainId))
      [] method \in {"eth_networkVersion", "net_version"} -> Ok(chainId)
      [] method = "eth_blockNumber" -> Ok(ToHex(blockNumber))
      [] method = "eth_getBlockByNumber" -> Ok(GetBlock(transactions, blockNumber))
      [] method \in {"eth_getTransactionByHash", "eth_getTransactionReceipt"}
            -> Ok(h \in SeqToSet(transactions))
      [] method = "net_listening" -> Ok(TRUE)
      [] method = "eth_syncing" -> Ok(FALSE)
      [] OTHER -> NotImplemented

\* The query methods of MockWebSocketProvider.
Queries == {"getBlockNumber", "getBlock", "getTransaction", "getTransactionReceipt"}

Query(q, h) ==
    CASE q = "getBlockNumber" -> Ok(blockNumber)
      [] q = "getBlock" -> Ok(GetBlock(transactions, blockNumber))
      [] OTHER -> Ok(h \in SeqToSet(transactions))

\* The methods of MockWebSocketProvider that synthesize a transaction.
Synthesizers == {"sendTransaction", "generateTestTransaction"}

\* sendTransaction(tx) or generateTestTransaction() on the provider, by a caller
\* outside the RelayManager.
SendTransaction ==
    /\ sends < MaxSends
    /\ \E c \in Synthesizers, dt \in 0..1 :
        LET r == EnsureConnected(connected, Ok(MockHash(now + dt)))
        IN  /\ Called(c, r)
            /\ IF r.ok
               THEN /\ now' = now + dt
                    /\ transactions' = MapSet(transactions, MockHash(now + dt))
                    /\ sends' = sends + 1
                    /\ synthesized' = synthesized + 1
               ELSE UNCHANGED <<now, transactions, sends, synthesized>>
    /\ UNCHANGED <<blockNumber, timers, interval, wsVars, waitVars, rmVars, tgtVars>>
    /\ UNCHANGED <<mnVars, tmVars, relayCall, fmtVars, mrVars>>

\* send(method, params) on the provider.
RpcSend ==
    /\ \E method \in Methods : \E h \in Params(method) :
        Called(method, EnsureConnected(connected, Dispatch(method, h, SourceChainId)))
    /\ UNCHANGED <<simVars, wsVars, waitVars, rmVars, tgtVars, mnVars, tmVars, relayCall, fmtVars, mrVars>>

\* getBlockNumber(), getBlock(n), getTransaction(h) or getTransactionReceipt(h)
\* on the provider.
RpcQuery ==
    /\ \E q \in Queries : \E h \in Params(q) :
        Called(q, EnsureConnected(connected, Query(q, h)))
    /\ UNCHANGED <<simVars, wsVars, waitVars, rmVars, tgtVars, mnVars, tmVars, relayCall, fmtVars, mrVars>>

\* One tick of a block production timer: blockNumber++, 1 to 3 transactions,
\* emit('block').  Every listener that connect() has added forwards the event
\* once to the subscribers of the MockWebSocketProvider; the RelayManager, when
\* it listens, runs handleNewBlock per delivery: getBlock throws when the
\* provider is not connected, else the relay of the first listed hash starts.
\* The 3 s timer of waitForConnections is set in the turn that starts the 5 s
\* block timer, so it fires before that timer's first tick.
BlockTick ==
    /\ timers > 0
    /\ initPc # "settle"
    /\ blockNumber < MaxBlock
    /\ blockNumber' = blockNumber + 1
    /\ \E txCount \in 1..MaxTxPerBlock, b2, b3 \in 0..1 :
        LET stamps == TickStamps(txCount, b2, b3)
            keys == MapSetAll(transactions, [i \in 1..txCount |-> MockHash(stamps[i])])
            r == HandleNewBlocks(metrics, keys,
                                 IF Listening /\ connected THEN forwarders ELSE 0)
        IN  /\ synthesized + txCount <= MaxTxs
            /\ now' = stamps[txCount]
            /\ synthesized' = synthesized + txCount
            /\ transactions' = keys
            /\ metrics' = r.m
            /\ tasks' = tasks (+) SeqToBag(r.ts)
            /\ submitted' = submitted (+) SeqToBag(r.sub)
    /\ blockEvents' = blockEvents \o Repeat(blockNumber + 1, forwarders)
    /\ UNCHANGED <<timers, interval, sends, connected, connectionAttempts,
                   pendingConnects, forwarders, disconnects, waitVars, srcChainCfg,
                   initPc, connectionState, stopped, succeeded, failedChains>>
    /\ UNCHANGED offRelay


(***************************************************************************)
(* RelayManager.initialize (mock mode) and waitForConnections.             *)
(***************************************************************************)
\* Chain ids the target endpoint may answer with.
TargetAnswers == {TargetChainId, 5}

\* verifyChainId(provider, expected), given the provider's answer to eth_chainId.
VerifyChainId(answer, expected) == ParseHex(answer) = expected

\* initialize(): the providers are built, the listeners registered, and the
\* call suspends in ethProvider.getNetwork().
InitializeStart ==
    /\ initPc = "new"
    /\ initPc' = "detectTarget"
    /\ UNCHANGED <<simVars, wsVars, waitVars, srcChainCfg, connectionState, metrics,
                   tasks, stopped, tgtVars>>
    /\ UNCHANGED offRelay

\* getNetwork() answered: handleConnect('target'), then provider.connect().
TargetNetworkDetected ==
    /\ initPc = "detectTarget"
    /\ connectionState' = [connectionState EXCEPT !.target = TRUE]
    /\ IF ConnectRefused(connectionAttempts)
       THEN /\ initPc' = "failed"
            /\ UNCHANGED <<connectionAttempts, pendingConnects>>
       ELSE /\ initPc' = "connecting"
            /\ connectionAttempts' = connectionAttempts + 1
            /\ pendingConnects' = Append(pendingConnects, "init")
    /\ UNCHANGED <<simVars, connected, forwarders, disconnects, blockEvents,
                   waitVars, srcChainCfg, metrics, tasks, stopped, tgtVars>>
    /\ UNCHANGED offRelay

\* getNetwork() failed: initialize() rethrows.
TargetNetworkFailed ==
    /\ initPc = "detectTarget"
    /\ initPc' = "failed"
    /\ UNCHANGED <<simVars, wsVars, waitVars, srcChainCfg, connectionState, metrics,
                   tasks, stopped, tgtVars>>
    /\ UNCHANGED offRelay

\* AfterPoll with `||` for `&&`.
AfterPollEither(sv, tv) == IF sv \/ tv THEN "ready" ELSE "delay"

\* The end of one pass of the loop, from `if (sourceVerified && targetVerified)`.
AfterPoll(sv, tv) == IF sv /\ tv THEN "ready" ELSE "delay"

\* LoopEnds without the attempt ceiling.
LoopEndsOnTimeout(expired, att) == expired

\* Not `Date.now() - start < timeout && attempts < maxAttempts`.
LoopEnds(expired, att) == expired \/ att >= MaxAttempts

\* PollsEndpoint whatever the flag says.
PollsEndpointAlways(verified) == TRUE

\* `if (this.provider && !sourceVerified)`, and the same for the target: both
\* providers exist once initialize has built them.
PollsEndpoint(verified) == ~verified

\* The loop of waitForConnections from its head to the next suspension.  The
\* queries of the source go to the simulator and do not suspend: send of
\* eth_blockNumber and, when that one answered, of eth_chainId.  The first
\* query of the target suspends.
Poll(expired) ==
    IF LoopEnds(expired, attempts)
    THEN /\ initPc' = "failed"
         /\ UNCHANGED <<attempts, sourceVerified, targetVerified, reports,
                        connectionState, rpc>>
    ELSE LET asked == PollsEndpoint(sourceVerified)
             live == EnsureConnected(connected, Dispatch("eth_blockNumber", 0, SourceChainId))
             chain == EnsureConnected(connected, Dispatch("eth_chainId", 0, SourceChainId))
             answered == asked /\ live.ok /\ chain.ok
             valid == answered /\ VerifyChainId(chain.value, srcChainCfg)
             sv == sourceVerified \/ valid
         IN  /\ attempts' = attempts + 1
             /\ IF ~asked THEN UNCHANGED rpc
                ELSE IF live.ok THEN Called("eth_chainId", chain)
                ELSE Called("eth_blockNumber", live)
             /\ reports' = IF answered
                           THEN reports \cup {<<"source", ParseHex(chain.value)>>}
                           ELSE reports
             /\ sourceVerified' = sv
             /\ connectionState' = IF valid THEN [connectionState EXCEPT !.source = TRUE]
                                   ELSE connectionState
             /\ initPc' = IF PollsEndpoint(targetVerified) THEN "tgtLive"
                          ELSE AfterPoll(sv, targetVerified)
             /\ UNCHANGED targetVerified

\* The 3 s timer after provider initialization has fired.
SettleDone ==
    /\ initPc = "settle"
    /\ Poll(FALSE)
    /\ UNCHANGED <<simVars, wsVars, srcChainCfg, metrics, tasks, stopped, tgtVars>>
    /\ UNCHANGED <<mnVars, tmVars, relayCall, fmtVars, mrVars>>

\* The 2 s timer between two polls has fired; the 30 s of the call may be over.
DelayDone ==
    /\ initPc = "delay"
    /\ \E expired \in BOOLEAN : Poll(expired)
    /\ UNCHANGED <<simVars, wsVars, srcChainCfg, metrics, tasks, stopped, tgtVars>>
    /\ UNCHANGED <<mnVars, tmVars, relayCall, fmtVars, mrVars>>

\* The target answered eth_blockNumber: verifyChainId suspends in eth_chainId.
TargetLive ==
    /\ initPc = "tgtLive"
    /\ initPc' = "tgtChain"
    /\ UNCHANGED <<simVars, wsVars, waitVars, srcChainCfg, connectionState, metrics,
                   tasks, stopped, tgtVars>>
    /\ UNCHANGED offRelay

\* eth_blockNumber failed on the target: the error is logged.
TargetDead ==
    /\ initPc = "tgtLive"
    /\ initPc' = AfterPoll(sourceVerified, targetVerified)
    /\ UNCHANGED <<simVars, wsVars, waitVars, srcChainCfg, connectionState, metrics,
                   tasks, stopped, tgtVars>>
    /\ UNCHANGED offRelay

\* The target answered eth_chainId with chain id c.
TargetChainAnswer ==
    /\ initPc = "tgtChain"
    /\ \E c \in TargetAnswers :
        LET valid == VerifyChainId(ToHex(c), TargetChainId)
        IN  /\ reports' = reports \cup {<<"target", ParseHex(ToHex(c))>>}
            /\ targetVerified' = (targetVerified \/ valid)
            /\ connectionState' = IF valid THEN [connectionState EXCEPT !.target = TRUE]
                                  ELSE connectionState
            /\ initPc' = AfterPoll(sourceVerified, targetVerified \/ valid)
    /\ UNCHANGED <<simVars, wsVars, attempts, sourceVerified, srcChainCfg, metrics,
                   tasks, stopped, tgtVars>>
    /\ UNCHANGED offRelay

\* eth_chainId failed on the target: verifyChainId answers false.
TargetChainFailed ==
    /\ initPc = "tgtChain"
    /\ initPc' = AfterPoll(sourceVerified, targetVerified)
    /\ UNCHANGED <<simVars, wsVars, waitVars, srcChainCfg, connectionState, metrics,
                   tasks, stopped, tgtVars>>
    /\ UNCHANGED offRelay

(***************************************************************************)
(* RelayManager: the turns of a relay, and stop().                         *)
(***************************************************************************)
\* A turn r of task t is taken.
TakeTurn(t, r) ==
    /\ metrics' = r.m
    /\ tasks' = (tasks (-) SetToBag({t})) (+) SeqToBag(r.ts)
    /\ submitted' = submitted (+) SeqToBag(r.sub)
    /\ failedChains' = failedChains \cup r.ended
    /\ UNCHANGED offRelay

\* wallet.sendTransaction rejected, or the receipt's status is not 1: the
\* catch block runs.
RelayFails ==
    \E t \in BagToSet(tasks) :
        /\ t.pc = "inflight"
        /\ TakeTurn(t, RelayFailed(metrics, t.blk, t.cur, t.rest, t.subs, t.clean,
                                   Source(connected, transactions)))
        /\ UNCHANGED <<simVars, wsVars, waitVars, srcChainCfg, initPc,
                       connectionState, stopped, succeeded>>

\* The receipt's status is 1: metrics.successful++, and handleNewBlock's loop
\* goes on.
RelaySucceeds ==
    \E t \in BagToSet(tasks) :
        /\ t.pc = "inflight"
        /\ TakeTurn(t, NextInBlock([metrics EXCEPT !.successful = @ + 1], t.blk, t.rest,
                                   Source(connected, transactions)))
        /\ succeeded' = succeeded \cup {t.cur}
        /\ UNCHANGED <<simVars, wsVars, waitVars, srcChainCfg, initPc,
                       connectionState, stopped>>

\* retryTransaction's timer has fired: relayTransaction(txHash) again.
RetryTimer ==
    \E t \in BagToSet(tasks) :
        /\ t.pc = "delay"
        /\ TakeTurn(t, RelayTransaction(metrics, t.blk, t.cur, t.rest, t.subs, t.clean,
                                        Source(connected, transactions)))
        /\ UNCHANGED <<simVars, wsVars, waitVars, srcChainCfg, initPc,
                       connectionState, stopped, succeeded>>

\* relayTransaction(txHash), by a caller outside handleNewBlock, up to its
\* first suspension.
RelayCall ==
    /\ initPc = "ready"
    /\ relayCall.n < MaxRelayCalls
    /\ \E h \in Hashes :
        LET r == RelayTransaction(metrics, 0, h, <<>>, 0, TRUE,
                                  Source(connected, transactions))
        IN  /\ relayCall' = [n |-> relayCall.n + 1, hash |-> h]
            /\ metrics' = r.m
            /\ tasks' = tasks (+) SeqToBag(r.ts)
            /\ submitted' = submitted (+) SeqToBag(r.sub)
            /\ failedChains' = failedChains \cup r.ended
    /\ UNCHANGED <<simVars, wsVars, waitVars, srcChainCfg, initPc, connectionState,
                   stopped, succeeded>>
    /\ UNCHANGED offCall

\* Source transactions: recipient, sender, value, data ("" when there is
\* none), gas limit and gas price as hexadecimal digits, nonce and chain id.
SourceTxs ==
    [to : {2}, from : {1, 3}, value : {ToHex(0), ToHex(17)}, data : {"", "0xab"},
     gasLimit : {ToHex(21)}, gasPrice : {ToHex(1), ToHex(16)}, nonce : {0, 1},
     chainId : {DefaultChainId, 5}]

NoRequest == [variant |-> "none", body |-> <<>>]

\* formattedTx of relayTransaction: ethers.BigNumber.from parses the
\* hexadecimal strings, and `tx.data || '0x'` replaces a missing data.
FormattedTx(tx) ==
    [to |-> tx.to, value |-> ParseHex(tx.value),
     data |-> IF tx.data = "" THEN "0x" ELSE tx.data,
     gasLimit |-> ParseHex(tx.gasLimit), gasPrice |-> ParseHex(tx.gasPrice)]

\* The argument of ethProvider.sendTransaction in the first RelayManager of
\* relay-manager.js.
FirstRequest(tx) ==
    [to |-> tx.to, from |-> tx.from, value |-> tx.value, data |-> tx.data,
     gasLimit |-> tx.gasLimit, gasPrice |-> tx.gasPrice]

\* relayTransaction has fetched srcTx and builds the request.
Format ==
    /\ request' = [variant |-> "second", body |-> FormattedTx(srcTx)]
    /\ UNCHANGED srcTx
    /\ UNCHANGED offFormat

\* The same in the first RelayManager.
FormatFirst ==
    /\ request' = [variant |-> "first", body |-> FirstRequest(srcTx)]
    /\ UNCHANGED srcTx
    /\ UNCHANGED offFormat

(***************************************************************************)
(* MockRelay.                                                              *)
(***************************************************************************)
\* gasUsed of simulateRelayToMainnet's answer
GasUsedPerRelay == 50000

\* A processTransaction call suspended in simulateRelayToMainnet: its hash and
\* the hashes processBlock's loop has still to go through (none for a call
\* made by generateAndProcessTransaction).
MrTask(h, rest) == [cur |-> h, rest |-> rest]

RECURSIVE ProcessTransaction(_, _, _, _)

\* processBlock's loop from the next hash on, up to the first suspension.
ProcessRest(m, rest, conn) ==
    IF rest = <<>> THEN [m |-> m, ts |-> <<>>]
    ELSE ProcessTransaction(m, Head(rest), Tail(rest), conn)

\* processTransaction(h) up to simulateRelayToMainnet's sleep.  getTransaction
\* throws when the provider is not connected: the catch block counts a
\* failure; it answers null for an unknown hash.
ProcessTransaction(m, h, rest, conn) ==
    IF ~conn.connected THEN ProcessRest([m EXCEPT !.failed = @ + 1], rest, conn)
    ELSE IF h \notin SeqToSet(conn.keys) THEN ProcessRest(m, rest, conn)
    ELSE [m |-> [m EXCEPT !.started = @ + 1], ts |-> <<MrTask(h, rest)>>]

\* The 'block' listener: lastBlockNumber, then processBlock(n).  getBlock
\* throws when the provider is not connected, which processBlock logs.
ProcessBlock(m, n, conn) ==
    LET m1 == [m EXCEPT !.lastBlockNumber = n]
    IN  IF ~conn.connected THEN [m |-> m1, ts |-> <<>>]
        ELSE ProcessRest(m1, GetBlock(conn.keys, n).transactions, conn)

\* start(): isRunning = true, and the call suspends in wsProvider.connect().
MrStart ==
    /\ mrPc = "new"
    /\ ~ConnectRefused(connectionAttempts)
    /\ mrPc' = "connecting"
    /\ connectionAttempts' = connectionAttempts + 1
    /\ pendingConnects' = Append(pendingConnects, "call")
    /\ UNCHANGED <<simVars, connected, forwarders, disconnects, blockEvents,
                   mrMetrics, mrTasks>>
    /\ UNCHANGED offMock

\* connect() resumed after detectNetwork, and start() after it: the 'block'
\* listener and the 10 s transaction timer are set.
MrStarted ==
    /\ mrPc = "connecting"
    /\ pendingConnects # <<>>
    /\ pendingConnects' = Tail(pendingConnects)
    /\ connected' = TRUE
    /\ timers' = timers + 1
    /\ interval' = TRUE
    /\ forwarders' = forwarders + 1
    /\ mrPc' = "running"
    /\ UNCHANGED <<blockNumber, transactions, now, synthesized, sends,
                   connectionAttempts, disconnects, blockEvents, mrMetrics, mrTasks>>
    /\ UNCHANGED offMock

\* One tick of the block production timer, delivered to MockRelay's listener.
MrBlockTick ==
    /\ mrPc = "running"
    /\ timers > 0
    /\ blockNumber < MaxBlock
    /\ blockNumber' = blockNumber + 1
    /\ \E txCount \in 1..MaxTxPerBlock, b2, b3 \in 0..1 :
        LET stamps == TickStamps(txCount, b2, b3)
            keys == MapSetAll(transactions, [i \in 1..txCount |-> MockHash(stamps[i])])
            r == ProcessBlock(mrMetrics, blockNumber + 1, Source(connected, keys))
        IN  /\ synthesized + txCount <= MaxTxs
            /\ now' = stamps[txCount]
            /\ synthesized' = synthesized + txCount
            /\ transactions' = keys
            /\ mrMetrics' = r.m
            /\ mrTasks' = mrTasks (+) SeqToBag(r.ts)
    /\ blockEvents' = blockEvents \o Repeat(blockNumber + 1, forwarders)
    /\ UNCHANGED <<timers, interval, sends, connected, connectionAttempts,
                   pendingConnects, forwarders, disconnects, mrPc>>
    /\ UNCHANGED offMock

\* The transaction timer: generateAndProcessTransaction() while isRunning.
MrGenerate ==
    /\ mrPc = "running"
    /\ sends < MaxSends
    /\ \E dt \in 0..1 :
        IF connected
        THEN LET keys == MapSet(transactions, MockHash(now + dt))
                 r == ProcessTransaction(mrMetrics, MockHash(now + dt), <<>>,
                                         Source(connected, keys))
             IN  /\ now' = now + dt
                 /\ transactions' = keys
                 /\ synthesized' = synthesized + 1
                 /\ sends' = sends + 1
                 /\ mrMetrics' = r.m
                 /\ mrTasks' = mrTasks (+) SeqToBag(r.ts)
        ELSE /\ sends' = sends + 1
             /\ UNCHANGED <<now, transactions, synthesized, mrMetrics, mrTasks>>
    /\ UNCHANGED <<blockNumber, timers, interval, wsVars, mrPc>>
    /\ UNCHANGED offMock

\* simulateRelayToMainnet's sleep is over: status 1, so successful++ and
\* gasUsed, and processBlock's loop goes on.
MrRelayed ==
    \E t \in BagToSet(mrTasks) :
        LET m1 == [mrMetrics EXCEPT !.successful = @ + 1,
                                    !.gasUsed = @ + GasUsedPerRelay]
            r == ProcessRest(m1, t.rest, Source(connected, transactions))
        IN  /\ mrMetrics' = r.m
            /\ mrTasks' = (mrTasks (-) SetToBag({t})) (+) SeqToBag(r.ts)
            /\ UNCHANGED <<simVars, wsVars, mrPc>>
            /\ UNCHANGED offMock

\* stop(): isRunning = false, wsProvider.disconnect(), clearInterval.
MrStop ==
    /\ mrPc = "running"
    /\ mrPc' = "stopped"
    /\ connected' = FALSE
    /\ StopBlockProduction
    /\ connectionAttempts' = 0
    /\ disconnects' = disconnects + 1
    /\ UNCHANGED <<blockNumber, transactions, now, synthesized, sends,
                   pendingConnects, forwarders, blockEvents, mrMetrics, mrTasks>>
    /\ UNCHANGED offMock

\* stop(): provider.disconnect(), when there is a provider.
Stop ==
    /\ Listening
    /\ ~stopped
    /\ disconnects < MaxDisconnects
    /\ DisconnectEffect
    /\ stopped' = TRUE

(***************************************************************************)
(* MainnetRelay.                                                           *)
(***************************************************************************)
\* Gas prices in gwei: at the ceiling and just above it.
GasPrices == {MaxGasPrice, MaxGasPrice + 1}

\* The arguments of relayTransaction: whether gasLimit is given, and
\* maxFeePerGas and maxPriorityFeePerGas (0: not given).
MnTransactions == [gasLimit : BOOLEAN, fee : {0} \cup GasPrices, prio : {0, 1}]

\* Not `!tx.maxFeePerGas || !tx.maxPriorityFeePerGas`.
Eip1559(tx) == tx.fee # 0 /\ tx.prio # 0

\* initialize(privateKey), the wallet being built.
MnInitialize ==
    /\ ~mnInit
    /\ mnInit' = TRUE
    /\ UNCHANGED <<mnPc, mnTx, mnAttempts, mnSends, mnSentNow, mnStore, mnResult,
                   mnOk, mnKo, mnCalls, mnOver>>
    /\ UNCHANGED mnAux
    /\ UNCHANGED offMainnet

\* relayTransaction(tx): 'Relay not initialized', or the first pass of the loop
\* up to its first suspension: estimateGas when no gasLimit is given, else
\* wallet.getTransactionCount().
MnCall ==
    /\ mnPc = "idle"
    /\ mnCalls < MaxCalls
    /\ mnCalls' = mnCalls + 1
    /\ \E tx \in MnTransactions :
        IF ~mnInit
        THEN /\ mnResult' = "NotInitialized"
             /\ UNCHANGED <<mnPc, mnTx, mnAttempts, mnSentNow, mnOver>>
        ELSE /\ mnTx' = tx
             /\ mnAttempts' = 0
             /\ mnSentNow' = 0
             /\ mnOver' = (Eip1559(tx) /\ tx.fee > MaxGasPrice)
             /\ mnResult' = "pending"
             /\ mnPc' = IF tx.gasLimit THEN "nonce" ELSE "estimate"
    /\ UNCHANGED <<mnInit, mnSends, mnStore, mnOk, mnKo>>
    /\ UNCHANGED mnAux
    /\ UNCHANGED offMainnet

\* estimateGas answered (it answers a fallback when the estimate fails).
MnEstimated ==
    /\ mnPc = "estimate"
    /\ mnPc' = "nonce"
    /\ UNCHANGED <<mnInit, mnTx, mnAttempts, mnSends, mnSentNow, mnStore, mnResult,
                   mnOk, mnKo, mnCalls, mnOver>>
    /\ UNCHANGED mnAux
    /\ UNCHANGED offMainnet

\* MnCatch with sentTx in scope: below maxRetries the call goes on into the
\* retry delay.
MnCatchRetrying ==
    /\ mnAttempts' = mnAttempts + 1
    /\ IF mnAttempts + 1 >= MnMaxRetries
       THEN mnResult' = "AttemptError" /\ mnPc' = "idle"
       ELSE mnResult' = mnResult /\ mnPc' = "retryDelay"
    /\ UNCHANGED <<mnKo, mnStore, mnOk>>

\* The catch block: attempts++, then `sentTx?.hash`.  sentTx is declared in the
\* try block, so the reference throws a ReferenceError, which ends
\* relayTransaction: recordTransactionFailure, the test of attempts against
\* maxRetries and the retry delay are never reached.
MnCatch ==
    /\ mnAttempts' = mnAttempts + 1
    /\ mnResult' = "ReferenceError"
    /\ mnPc' = "idle"
    /\ UNCHANGED <<mnKo, mnStore, mnOk>>

\* wallet.sendTransaction(tx) is called.
MnSubmit ==
    /\ mnSends' = mnSends + 1
    /\ mnSentNow' = mnSentNow + 1
    /\ mnPc' = "send"
    /\ UNCHANGED <<mnAttempts, mnResult, mnKo, mnStore, mnOk>>

\* getTransactionCount answered: with the EIP-1559 fields the transaction is
\* sent as it is; without them the gas price is asked for.
MnNonce ==
    /\ mnPc = "nonce"
    /\ IF Eip1559(mnTx) THEN MnSubmit
       ELSE /\ mnPc' = "gasPrice"
            /\ UNCHANGED <<mnAttempts, mnSends, mnSentNow, mnStore, mnResult, mnOk, mnKo>>
    /\ UNCHANGED <<mnInit, mnTx, mnCalls, mnOver>>
    /\ UNCHANGED mnAux
    /\ UNCHANGED offMainnet

\* getGasPrice answered g: above the ceiling it throws, else the transaction
\* is sent with it.
MnGasPrice ==
    /\ mnPc = "gasPrice"
    /\ \E g \in GasPrices :
        IF g > MaxGasPrice
        THEN /\ mnOver' = TRUE
             /\ MnCatch
             /\ UNCHANGED <<mnSends, mnSentNow>>
        ELSE /\ MnSubmit
             /\ UNCHANGED mnOver
    /\ UNCHANGED <<mnInit, mnTx, mnCalls>>
    /\ UNCHANGED mnAux
    /\ UNCHANGED offMainnet

\* An awaited call of the try block rejected: getTransactionCount,
\* getGasPrice, sendTransaction, getNetwork or wait (a receipt without status).
MnRejected ==
    /\ mnPc \in {"nonce", "gasPrice", "send", "network", "receipt"}
    /\ MnCatch
    /\ UNCHANGED <<mnInit, mnTx, mnSends, mnSentNow, mnCalls, mnOver>>
    /\ UNCHANGED mnAux
    /\ UNCHANGED offMainnet

\* sendTransaction answered: getNetwork is asked.
MnSent ==
    /\ mnPc = "send"
    /\ mnPc' = "network"
    /\ UNCHANGED <<mnInit, mnTx, mnAttempts, mnSends, mnSentNow, mnStore, mnResult,
                   mnOk, mnKo, mnCalls, mnOver>>
    /\ UNCHANGED mnAux
    /\ UNCHANGED offMainnet

\* getNetwork answered: wait(1).
MnNetwork ==
    /\ mnPc = "network"
    /\ mnPc' = "receipt"
    /\ UNCHANGED <<mnInit, mnTx, mnAttempts, mnSends, mnSentNow, mnStore, mnResult,
                   mnOk, mnKo, mnCalls, mnOver>>
    /\ UNCHANGED mnAux
    /\ UNCHANGED offMainnet

\* The receipt has a status: the record is stored under the hash of the sent
\* transaction, the success counter goes up, and the 5 s timer starts.
MnReceipt ==
    /\ mnPc = "receipt"
    /\ mnStore' = mnStore \cup {mnSends}
    /\ mnOk' = mnOk + 1
    /\ mnPc' = "indexing"
    /\ UNCHANGED <<mnInit, mnTx, mnAttempts, mnSends, mnSentNow, mnResult, mnKo,
                   mnCalls, mnOver>>
    /\ mnRelayed' = mnRelayed \cup {mnTx}
    /\ UNCHANGED <<mnClosing, mnShutdowns, peerStore>>
    /\ UNCHANGED offMainnet

\* The 5 s timer has fired: relayTransaction returns success.
MnIndexed ==
    /\ mnPc = "indexing"
    /\ mnPc' = "idle"
    /\ mnResult' = "success"
    /\ UNCHANGED <<mnInit, mnTx, mnAttempts, mnSends, mnSentNow, mnStore, mnOk, mnKo,
                   mnCalls, mnOver>>
    /\ UNCHANGED mnAux
    /\ UNCHANGED offMainnet

\* shutdown(): it suspends in metrics.shutdown(), which closes the server.
MnShutdown ==
    /\ mnShutdowns < MaxShutdowns
    /\ mnShutdowns' = mnShutdowns + 1
    /\ mnClosing' = mnClosing + 1
    /\ UNCHANGED <<mnInit, mnPc, mnTx, mnAttempts, mnSends, mnSentNow, mnStore, mnResult,
                   mnOk, mnKo, mnCalls, mnOver, mnRelayed, peerStore>>
    /\ UNCHANGED offMainnet

\* shutdown(), the server closed: this.transactions.clear(), isInitialized = false.
MnShutdownDone ==
    /\ mnClosing > 0
    /\ mnClosing' = mnClosing - 1
    /\ mnStore' = {}
    /\ mnInit' = FALSE
    /\ UNCHANGED <<mnPc, mnTx, mnAttempts, mnSends, mnSentNow, mnResult,
                   mnOk, mnKo, mnCalls, mnOver, mnShutdowns, mnRelayed, peerStore>>
    /\ UNCHANGED offMainnet

\* A second MainnetRelay of the process, with a MetricsCollector of its own,
\* has a receipt with a status: it stores the record in its own map, and
\* recordTransactionSuccess counts on transactionCounter, which belongs to the
\* metrics module and not to a collector.
PeerRelayed ==
    /\ Cardinality(peerStore) < MaxPeer
    /\ peerStore' = peerStore \cup {Cardinality(peerStore) + 1}
    /\ mnOk' = mnOk + 1
    /\ UNCHANGED <<mnInit, mnPc, mnTx, mnAttempts, mnSends, mnSentNow, mnStore, mnResult,
                   mnKo, mnCalls, mnOver, mnClosing, mnShutdowns, mnRelayed>>
    /\ UNCHANGED offMainnet

(***************************************************************************)
(* TransactionMonitor.                                                     *)
(*                                                                         *)
(* A websocket is [alive, next, listener]: it has not been closed by        *)
(* stop(); the earliest time of its next 'close' event (the reconnecting    *)
(* websocket waits minReconnectionDelay before it tries again); and its     *)
(* provider has a 'block' listener.                                         *)
(***************************************************************************)
\* setupWebSocket(): a new websocket with its open, error and close listeners
\* and a new provider on it; the websocket and the provider it replaces are
\* left as they are.  startBlockMonitoring() follows when listen holds.
SetupWebSocket(listen) ==
    tmSockets' = Append(tmSockets, [alive |-> TRUE, next |-> tmNow, listener |-> listen])

\* start(): setupWebSocket(), startBlockMonitoring(), isRunning = true.
TmStart ==
    /\ ~tmRunning
    /\ Len(tmSockets) < MaxSetups
    /\ SetupWebSocket(TRUE)
    /\ tmRunning' = TRUE
    /\ tmHalted' = FALSE
    /\ UNCHANGED <<tmAttempts, tmDelay, tmNow, tmTimers, tmStopping, tmSchedule>>
    /\ UNCHANGED offMonitor

\* stop(), up to its suspension in metrics.shutdown(), on the websockets ws:
\* nothing when the monitor is not running; else the listeners of
\* this.provider are removed and its websocket is closed.
TmStopEffect(ws) ==
    IF ~tmRunning
    THEN /\ tmSockets' = ws
         /\ UNCHANGED tmStopping
    ELSE /\ tmSockets' = [ws EXCEPT ![Len(ws)] =
                              [alive |-> FALSE, next |-> @.next, listener |-> FALSE]]
         /\ tmStopping' = tmStopping + 1

\* stop(), by a caller.
TmStop ==
    /\ tmRunning
    /\ tmStopping < MaxStopping
    /\ TmStopEffect(tmSockets)
    /\ UNCHANGED <<tmRunning, tmAttempts, tmDelay, tmNow, tmTimers, tmHalted, tmSchedule>>
    /\ UNCHANGED offMonitor

\* stop(), the metrics server closed: isRunning = false.
TmStopDone ==
    /\ tmStopping > 0
    /\ tmStopping' = tmStopping - 1
    /\ tmRunning' = FALSE
    /\ UNCHANGED <<tmAttempts, tmDelay, tmNow, tmTimers, tmSockets, tmHalted, tmSchedule>>
    /\ UNCHANGED offMonitor

\* NextDelay growing by the base delay instead of doubling.
NextDelayLinear(d) == d + ReconnectDelay

\* The delay handleReconnection sets its timer with: reconnectDelay *= 2 runs
\* before setTimeout.
NextDelay(d) == d * 2

\* Websocket i emits 'close': handleReconnection().  At the ceiling it calls
\* stop(); below it, it counts the attempt, doubles the delay and sets a timer
\* with it.
TmClose ==
    \E i \in 1..Len(tmSockets) :
        LET ws == [tmSockets EXCEPT ![i].next = tmNow + MinReconnectionDelay]
        IN  /\ tmSockets[i].alive
            /\ tmSockets[i].next <= tmNow
            /\ IF tmAttempts >= MaxReconnectAttempts
               THEN /\ tmStopping < MaxStopping
                    /\ tmHalted' = TRUE
                    /\ TmStopEffect(ws)
                    /\ UNCHANGED <<tmAttempts, tmDelay, tmTimers, tmSchedule>>
               ELSE /\ tmAttempts' = tmAttempts + 1
                    /\ tmDelay' = NextDelay(tmDelay)
                    /\ tmTimers' = Append(tmTimers, tmNow + NextDelay(tmDelay))
                    /\ tmSchedule' = Append(tmSchedule, NextDelay(tmDelay))
                    /\ tmSockets' = ws
                    /\ UNCHANGED <<tmStopping, tmHalted>>
            /\ UNCHANGED <<tmRunning, tmNow>>
            /\ UNCHANGED offMonitor

\* The reconnection timers that have not fired at time t.
RECURSIVE Pending(_, _)
Pending(ts, t) ==
    IF ts = <<>> THEN <<>>
    ELSE IF Head(ts) = t THEN Tail(ts)
    ELSE <<Head(ts)>> \o Pending(Tail(ts), t)

\* A reconnection timer fires: setupWebSocket(), and startBlockMonitoring()
\* when the monitor is running.
TmTimer ==
    /\ tmNow \in SeqToSet(tmTimers)
    /\ Len(tmSockets) < MaxSetups
    /\ tmTimers' = Pending(tmTimers, tmNow)
    /\ SetupWebSocket(tmRunning)
    /\ UNCHANGED <<tmRunning, tmAttempts, tmDelay, tmNow, tmStopping, tmHalted, tmSchedule>>
    /\ UNCHANGED offMonitor

\* Websocket i emits 'open': the attempt counter and the delay are reset.
TmOpen ==
    /\ \E i \in 1..Len(tmSockets) : tmSockets[i].alive
    /\ tmAttempts' = 0
    /\ tmDelay' = ReconnectDelay
    /\ tmSchedule' = <<>>
    /\ UNCHANGED <<tmRunning, tmNow, tmTimers, tmSockets, tmStopping, tmHalted>>
    /\ UNCHANGED offMonitor

\* Time passes, once the timers that are due have fired.
TmTick ==
    /\ tmNow < MaxTime * 1000
    /\ tmNow \notin SeqToSet(tmTimers)
    /\ tmNow' = tmNow + 1000
    /\ UNCHANGED <<tmRunning, tmAttempts, tmDelay, tmTimers, tmSockets, tmStopping,
                   tmHalted, tmSchedule>>
    /\ UNCHANGED offMonitor

(***************************************************************************)
(* Specifications.                                                         *)
(***************************************************************************)
SourceChainCfgs == {0, DefaultChainId}

InitSim ==
    /\ blockNumber = 0
    /\ transactions = <<>>
    /\ timers = 0
    /\ interval = FALSE
    /\ now = 0
    /\ synthesized = 0
    /\ sends = 0
    /\ connected = FALSE
    /\ connectionAttempts = 0
    /\ pendingConnects = <<>>
    /\ forwarders = 0
    /\ disconnects = 0
    /\ blockEvents = <<>>
    /\ rpc = [flip |-> FALSE, call |-> "none", result |-> Ok(FALSE)]

InitManager ==
    /\ initPc = "new"
    /\ attempts = 0
    /\ sourceVerified = FALSE
    /\ targetVerified = FALSE
    /\ reports = {}
    /\ connectionState = [source |-> FALSE, target |-> FALSE]
    /\ metrics = [transactions |-> 0, successful |-> 0, failed |-> 0, retries |-> 0,
                  disconnections |-> 0]
    /\ tasks = EmptyBag
    /\ stopped = FALSE
    /\ relayCall = [n |-> 0, hash |-> 0]
    /\ submitted = EmptyBag
    /\ succeeded = {}
    /\ failedChains = {}

InitRequest ==
    /\ srcTx = [to |-> 2, from |-> 1, value |-> ToHex(0), data |-> "",
                gasLimit |-> ToHex(21), gasPrice |-> ToHex(1), nonce |-> 0,
                chainId |-> DefaultChainId]
    /\ request = NoRequest

InitMockRelay ==
    /\ mrPc = "new"
    /\ mrMetrics = [started |-> 0, successful |-> 0, failed |-> 0, gasUsed |-> 0,
                    lastBlockNumber |-> 0]
    /\ mrTasks = EmptyBag

InitMainnet ==
    /\ mnInit = FALSE
    /\ mnPc = "idle"
    /\ mnTx = [gasLimit |-> TRUE, fee |-> 0, prio |-> 0]
    /\ mnAttempts = 0
    /\ mnSends = 0
    /\ mnSentNow = 0
    /\ mnStore = {}
    /\ mnResult = "none"
    /\ mnOk = 0
    /\ mnKo = 0
    /\ mnCalls = 0
    /\ mnOver = FALSE
    /\ mnClosing = 0
    /\ mnShutdowns = 0
    /\ mnRelayed = {}
    /\ peerStore = {}

InitMonitor ==
    /\ tmRunning = FALSE
    /\ tmAttempts = 0
    /\ tmDelay = ReconnectDelay
    /\ tmNow = 0
    /\ tmTimers = <<>>
    /\ tmSockets = <<>>
    /\ tmStopping = 0
    /\ tmHalted = FALSE
    /\ tmSchedule = <<>>

\* A RelayManager in mock mode on its simulator, from construction on:
\* initialize() and waitForConnections() while the simulator runs.  The relays
\* that block events start stay suspended on the target network.
InitInit ==
    /\ InitSim
    /\ InitManager
    /\ InitMainnet
    /\ InitMonitor
    /\ InitRequest
    /\ InitMockRelay
    /\ srcChainCfg \in SourceChainCfgs

InitNext ==
    \/ InitializeStart
    \/ TargetNetworkDetected
    \/ TargetNetworkFailed
    \/ ConnectDone
    \/ SettleDone
    \/ DelayDone
    \/ TargetLive
    \/ TargetDead
    \/ TargetChainAnswer
    \/ TargetChainFailed
    \/ BlockTick
    \/ Disconnect
    \/ Stop

InitSpec == InitInit /\ [][InitNext]_vars

\* initialize() and waitForConnections() alone.  Block production is left out:
\* it writes nothing that waitForConnections reads.
WaitNext ==
    \/ InitializeStart
    \/ TargetNetworkDetected
    \/ TargetNetworkFailed
    \/ ConnectDone
    \/ SettleDone
    \/ DelayDone
    \/ TargetLive
    \/ TargetDead
    \/ TargetChainAnswer
    \/ TargetChainFailed
    \/ Disconnect
    \/ DisconnectAgain
    \/ Stop

WaitSpec == InitInit /\ [][WaitNext]_vars

\* The same with the timers firing and the network calls answering or failing
\* in the end.
WaitLiveSpec == WaitSpec /\ WF_vars(WaitNext)

\* The state in which initialize() returns when both endpoints are verified in
\* the first poll and no block has been produced yet.
Init ==
    /\ blockNumber = 0
    /\ transactions = <<>>
    /\ timers = 1
    /\ interval = TRUE
    /\ now = 0
    /\ synthesized = 0
    /\ sends = 0
    /\ connected = TRUE
    /\ connectionAttempts = 1
    /\ pendingConnects = <<>>
    /\ forwarders = 1
    /\ disconnects = 0
    /\ blockEvents = <<>>
    /\ rpc = [flip |-> FALSE, call |-> "none", result |-> Ok(FALSE)]
    /\ srcChainCfg = DefaultChainId
    /\ initPc = "ready"
    /\ attempts = 1
    /\ sourceVerified = TRUE
    /\ targetVerified = TRUE
    /\ reports = {<<"source", DefaultChainId>>, <<"target", TargetChainId>>}
    /\ connectionState = [source |-> TRUE, target |-> TRUE]
    /\ metrics = [transactions |-> 0, successful |-> 0, failed |-> 0, retries |-> 0,
                  disconnections |-> 0]
    /\ tasks = EmptyBag
    /\ stopped = FALSE
    /\ relayCall = [n |-> 0, hash |-> 0]
    /\ submitted = EmptyBag
    /\ succeeded = {}
    /\ failedChains = {}
    /\ InitMainnet
    /\ InitMonitor
    /\ InitRequest
    /\ InitMockRelay

\* The running RelayManager: blocks, relays, disconnects and stop().
Next ==
    \/ ConnectDone
    \/ BlockTick
    \/ RelayFails
    \/ RelaySucceeds
    \/ RetryTimer
    \/ Disconnect
    \/ Stop

Spec == Init /\ [][Next]_vars

\* The same RelayManager with relayTransaction also called from outside, while
\* the source stays connected.
RelayNext ==
    \/ BlockTick
    \/ RelayCall
    \/ RelayFails
    \/ RelaySucceeds
    \/ RetryTimer

\* RelaySpec without the proviso that timers complete.
RelayLiveSpecTimerMayStall ==
    Init /\ [][RelayNext]_vars /\ WF_vars(RelayFails \/ RelaySucceeds)

RelaySpec == Init /\ [][RelayNext]_vars

\* RelaySpec where every awaited call of the target and every retry timer
\* completes.
RelayLiveSpec ==
    RelaySpec /\ WF_vars(RelayFails \/ RelaySucceeds) /\ WF_vars(RetryTimer)

\* The simulator alone, driven through its interface.
SimInit ==
    /\ InitSim
    /\ InitManager
    /\ InitMainnet
    /\ InitMonitor
    /\ InitRequest
    /\ InitMockRelay
    /\ srcChainCfg = DefaultChainId

SimNext ==
    \/ Connect
    \/ ConnectDone
    \/ Disconnect
    \/ SendTransaction
    \/ RpcSend
    \/ RpcQuery
    \/ BlockTick

SimSpec == SimInit /\ [][SimNext]_vars

\* A MockRelay, from construction on: start(), block events, the transaction
\* timer, and stop().
MockRelayInit ==
    /\ InitSim
    /\ InitManager
    /\ InitMainnet
    /\ InitMonitor
    /\ InitRequest
    /\ InitMockRelay
    /\ srcChainCfg = DefaultChainId

MockRelayNext ==
    \/ MrStart
    \/ MrStarted
    \/ MrBlockTick
    \/ MrGenerate
    \/ MrRelayed
    \/ MrStop

MockRelaySpec == MockRelayInit /\ [][MockRelayNext]_vars

\* The building of the submission request, for every source transaction.
FormatInit ==
    /\ InitSim
    /\ InitManager
    /\ InitMainnet
    /\ InitMonitor
    /\ InitMockRelay
    /\ srcChainCfg = DefaultChainId
    /\ srcTx \in SourceTxs
    /\ request = NoRequest

FormatNext ==
    \/ Format
    \/ FormatFirst

FormatSpec == FormatInit /\ [][FormatNext]_vars

\* A MainnetRelay, from construction on.
MainnetInit ==
    /\ InitSim
    /\ InitManager
    /\ InitMainnet
    /\ InitMonitor
    /\ InitRequest
    /\ InitMockRelay
    /\ srcChainCfg = DefaultChainId

MainnetNext ==
    \/ MnInitialize
    \/ MnCall
    \/ MnEstimated
    \/ MnNonce
    \/ MnGasPrice
    \/ MnRejected
    \/ MnSent
    \/ MnNetwork
    \/ MnReceipt
    \/ MnIndexed
    \/ MnShutdown
    \/ MnShutdownDone
    \/ PeerRelayed

MainnetSpec == MainnetInit /\ [][MainnetNext]_vars

\* A TransactionMonitor, from construction on.
MonitorInit == MainnetInit

MonitorNext ==
    \/ TmStart
    \/ TmStop
    \/ TmStopDone
    \/ TmClose
    \/ TmTimer
    \/ TmOpen
    \/ TmTick

MonitorSpec == MonitorInit /\ [][MonitorNext]_vars


(***************************************************************************)
(* Properties.                                                             *)
(***************************************************************************)

\* C1: a transaction whose every relay attempt fails at the target (send error
\* or receipt status other than 1) has been submitted exactly RetryAttempts
\* times when its relay ends (stated for the runs in which the source stays
\* connected).
C1_RetriedExactlyCeiling ==
    disconnects = 0 => \A n \in failedChains : n = RetryAttempts

\* C2: once the relay of a source hash has succeeded, no step submits that
\* hash to the target again.
C2_NoResubmitAfterSuccess ==
    [][\A h \in succeeded : CopiesIn(h, submitted') = CopiesIn(h, submitted)]_vars

\* C3: while a relayTransaction call of MainnetRelay has met a gas price above
\* the ceiling (the fee of an EIP-1559 transaction, or the legacy gas price),
\* it has called wallet.sendTransaction at no time, its attempt counter is
\* still 0, and it ends with the gas ceiling error.
C3_GasCeilingBlocksSubmit ==
    mnOver => /\ mnSentNow = 0
              /\ mnAttempts = 0
              /\ mnPc = "idle" => mnResult = "GasCeilingExceeded"

\* C4: waitForConnections has resolved true exactly when, in at most
\* MaxAttempts polls, the source answered eth_chainId with its configured
\* chain id and the target answered with its own.
C4_VerifiedIffBothReported ==
    /\ (initPc = "ready") <=> /\ <<"source", srcChainCfg>> \in reports
                              /\ <<"target", TargetChainId>> \in reports
    /\ attempts <= MaxAttempts

\* C4, reached: verification succeeds in the last poll allowed.
C4_VerifiedInLastPoll == initPc = "ready" /\ attempts = MaxAttempts

\* C5: the block numbers delivered to a subscriber go up by exactly 1 from
\* one event to the next.
C5_EventsIncreaseByOne ==
    \A i \in 1..(Len(blockEvents) - 1) : blockEvents[i + 1] = blockEvents[i] + 1

\* C6: every synthesized transaction has a hash of its own, so the transaction
\* map holds one entry per synthesized transaction.
C6_HashesUnique == Len(transactions) = synthesized

\* C7: when every relay so far succeeded at its first attempt and none is in
\* flight, successful and transactions both equal the number of distinct
\* source transactions relayed.
C7_MetricsCountDistinct ==
    (BagToSet(tasks) = {} /\ metrics.failed = 0)
        => /\ metrics.successful = Cardinality(succeeded)
           /\ metrics.transactions = Cardinality(succeeded)

\* C8: while waitForConnections has not resolved true, no step starts the
\* relay of a transaction or submits one to the target (stated for the runs in
\* which nobody disconnects the source).
C8_NoRelayBeforeVerified ==
    [][(initPc # "ready" /\ disconnects = 0)
          => /\ submitted' = submitted
             /\ metrics'.transactions = metrics.transactions]_vars

\* C9: once stop() has completed, the source provider is disconnected and no
\* block production timer runs.
C9_StoppedStaysDisconnected == stopped => (~connected /\ timers = 0)

\* C10: once stop() has completed, no relay that was in flight or waiting in
\* its retry delay submits to the target (a step that produces no block
\* submits nothing).
C10_NoRetryAfterStop ==
    [][(stopped /\ blockNumber' = blockNumber) => submitted' = submitted]_vars

\* C11: no step deletes a record from the store of MainnetRelay: what is in
\* this.transactions before shutdown() is still in it afterwards.
C11_RecordsNeverDeleted == [][mnStore \subseteq mnStore']_vars

\* C12: the store of MainnetRelay holds at most one record per transaction
\* relayed: relaying the same transaction again adds no second record.
C12_OneRecordPerTransaction == Cardinality(mnStore) <= Cardinality(mnRelayed)

\* C19: a step of a second MainnetRelay changes nothing that is observable
\* through the first: its record store and the success and failure counts its
\* MetricsCollector reports.
C19_InstancesIsolated ==
    [][peerStore' # peerStore => <<mnStore, mnOk, mnKo>>' = <<mnStore, mnOk, mnKo>>]_vars

\* C13: no two transactions of one block are being relayed at once: the
\* handleNewBlock invocations in flight for the same block number are all at
\* the same transaction.
C13_SequentialInBlock ==
    \A t1, t2 \in BagToSet(tasks) : t1.blk = t2.blk => t1.cur = t2.cur

\* C14: the relays of two blocks never interleave: all handleNewBlock
\* invocations in flight belong to the same block.
C14_BlocksDoNotInterleave ==
    \A t1, t2 \in BagToSet(tasks) : t1.blk = t2.blk

\* C15: a relay that fails at every attempt does not stop block processing:
\* its failures are counted, and once every handleNewBlock invocation has
\* returned, with the source connected throughout, every transaction listed in
\* a block has been submitted to the target at least once.
C15_FailureDoesNotHaltBlock ==
    /\ failedChains # {} => metrics.failed > 0
    /\ (BagToSet(tasks) = {} /\ disconnects = 0)
          => \A h \in SeqToSet(transactions) : CopiesIn(h, submitted) >= 1

\* C15, reached: in block 1 the first transaction failed at every attempt and
\* the second one was relayed with success after it.
C15_RelayedAfterFailedOne ==
    /\ blockNumber = 1 /\ disconnects = 0 /\ BagToSet(tasks) = {}
    /\ failedChains # {}
    /\ Len(transactions) = 2
    /\ transactions[1] \notin succeeded
    /\ transactions[2] \in succeeded

\* C16: the disconnection counter of the RelayManager equals the number of
\* disconnect events of the source: each event adds exactly 1 and nothing else
\* changes it.
C16_CountsDisconnects ==
    [][metrics'.disconnections = metrics.disconnections + (disconnects' - disconnects)]_vars

\* C16, reached: a disconnect event has been counted.
C16_Disconnected == disconnects = 1 /\ metrics.disconnections = 1

\* C17: the delays of the reconnection timers of TransactionMonitor start at
\* the base delay and double per attempt: the i-th timer set since the last
\* 'open' waits ReconnectDelay * 2^(i-1).
C17_BackoffStartsAtBase ==
    \A i \in 1..Len(tmSchedule) : tmSchedule[i] = ReconnectDelay * 2 ^ (i - 1)

\* C18: once a 'close' event has found reconnectAttempts at the ceiling, no
\* websocket is set up any more (a step that leaves the monitor halted, that
\* is, any step but a new start(), sets none up).
C18_HaltedSetsUpNothing ==
    [][(tmHalted /\ tmHalted') => Len(tmSockets') = Len(tmSockets)]_vars

\* C20: a call of send(method, params), of a query method or of a synthesizing
\* method made while the provider is not connected ends with the not-connected
\* error, whatever the method, and leaves the simulator as it was.
C20_NotConnectedFailsAll ==
    [][(rpc'.flip # rpc.flip /\ rpc'.call \in Methods \cup Queries \cup Synthesizers
                             /\ ~connected)
          => /\ rpc'.result = NotConnected
             /\ UNCHANGED <<simVars, wsVars>>]_vars

\* C20, reached: send() was called with an unsupported method while the
\* provider was not connected.
C20_UnsupportedWhileDisconnected ==
    /\ rpc.call = "eth_gasPrice" /\ ~rpc.result.ok /\ rpc.result = NotConnected
    /\ disconnects = 1 /\ ~connected

\* C21: connect() is accepted only while the attempt counter is below the
\* maximum of 3; at the maximum every call is refused with the error, and a
\* refused call leaves the connected flag, the block number, the block
\* production timers and the counter as they were.
C21_RefusedAtCeiling ==
    [][/\ connectionAttempts' > connectionAttempts => connectionAttempts < MaxRetries
       /\ connectionAttempts' <= MaxRetries
       /\ (rpc'.flip # rpc.flip /\ rpc'.call = "connect")
             => /\ connectionAttempts >= MaxRetries
                /\ rpc'.result = MaxAttemptsReached
                /\ UNCHANGED <<connected, blockNumber, timers, interval,
                               connectionAttempts, pendingConnects>>]_vars

\* C21, reached: a fourth connect() was refused while the provider was
\* connected and producing blocks.
C21_FourthConnectRefused ==
    /\ rpc.call = "connect" /\ rpc.result = MaxAttemptsReached
    /\ connectionAttempts = MaxRetries /\ connected /\ blockNumber > 0

\* C22: while the provider is not connected, the block number does not
\* change, no transaction is synthesized and no block event is emitted.
C22_DisconnectedProducesNothing ==
    [][~connected => UNCHANGED <<blockNumber, transactions, synthesized, blockEvents>>]_vars

\* C23: a disconnect() on a provider that a disconnect() seen by the
\* RelayManager has already left disconnected changes nothing: not the
\* simulator, not the RelayManager's disconnection counter or connection
\* state, and no connect is started.
C23_SecondDisconnectChangesNothing ==
    [][(disconnects' > disconnects /\ metrics.disconnections > 0 /\ ~connected)
          => UNCHANGED <<simVars, connected, connectionAttempts, pendingConnects,
                         forwarders, metrics, connectionState>>]_vars

\* C24: for every block number n produced so far, getBlock(n) answers with
\* number n and with the same list of transaction hashes after every step.
\* (getBlock does not read its argument: GetBlock is the answer for every n.)
C24_BlocksImmutable ==
    [][\A n \in 1..blockNumber :
          /\ GetBlock(transactions', blockNumber').number = n
          /\ GetBlock(transactions', blockNumber').transactions
                = GetBlock(transactions, blockNumber).transactions]_vars

\* C25: a relayTransaction call of MainnetRelay that found the legacy gas
\* price above the ceiling has ended, after one attempt, with no submission;
\* it is in no retry delay and submits nothing later.
C25_GasCeilingNotRetried ==
    (mnOver /\ ~Eip1559(mnTx)) => mnPc = "idle" /\ mnAttempts = 1 /\ mnSentNow = 0

\* C25, reached: a call found the legacy gas price above the ceiling and ended.
C25_CeilingRejected ==
    mnOver /\ ~Eip1559(mnTx) /\ mnPc = "idle" /\ mnResult = "ReferenceError"

\* C26: a relayTransaction call of MainnetRelay that has ended in failure made
\* exactly maxRetries attempts and rejected with the error of its last attempt.
C26_FailsAfterMaxRetries ==
    (mnPc = "idle" /\ mnResult \notin {"none", "NotInitialized", "success"})
        => mnAttempts = MnMaxRetries /\ mnResult = "AttemptError"

\* C27: the step in which a relayTransaction call of MainnetRelay ends in
\* failure writes a record to the record store (the record of the permanent
\* failure of its transaction).
C27_FailureRecorded ==
    [][(mnPc # "idle" /\ mnPc' = "idle" /\ mnResult' # "success")
          => mnStore' # mnStore]_vars

\* C28: once an endpoint is verified, its flag stays true and no step of
\* waitForConnections queries it again: no send() reaches the source provider,
\* and the call never waits for an answer of the target.
C28_VerifiedNotPolledAgain ==
    [][/\ sourceVerified => (sourceVerified' /\ rpc' = rpc)
       /\ targetVerified => (targetVerified' /\ initPc' \notin {"tgtLive", "tgtChain"})]_vars

\* C28, reached: a later poll runs with the source verified and the target not.
C28_OnlyTargetPolled ==
    sourceVerified /\ ~targetVerified /\ attempts >= 2 /\ initPc = "tgtChain"

\* C29: waitForConnections makes at most MaxAttempts polls; it resolves true
\* in the step in which the second endpoint becomes verified and in no other;
\* after the last poll it fails if an endpoint is unverified, and it fails
\* only with an endpoint unverified; once started it resolves or fails.
C29_WaitTerminates ==
    /\ [](attempts <= MaxAttempts)
    /\ [][(initPc # "ready" /\ initPc' = "ready")
             => /\ sourceVerified' /\ targetVerified'
                /\ ~(sourceVerified /\ targetVerified)]_vars
    /\ []((sourceVerified /\ targetVerified) => initPc = "ready")
    /\ []((initPc = "failed" /\ attempts > 0) => ~(sourceVerified /\ targetVerified))
    /\ [][(initPc = "delay" /\ attempts = MaxAttempts /\ initPc' # initPc)
             => initPc' = "failed"]_vars
    /\ (initPc = "settle") ~> (initPc \in {"ready", "failed"})

\* C29, reached: the fifth poll has left the target unverified and the call has failed.
C29_FailedAfterLastPoll ==
    initPc = "failed" /\ attempts = MaxAttempts /\ sourceVerified /\ ~targetVerified

\* C30: an entry of connectionState is true only if a chain-id query on that
\* endpoint has returned the expected chain id.
C30_TrustedOnlyAfterChainId ==
    /\ connectionState.source => <<"source", srcChainCfg>> \in reports
    /\ connectionState.target => <<"target", TargetChainId>> \in reports

\* C31: at most one connect() call of the source provider is in progress
\* (suspended in detectNetwork) at a time, and at most one block production
\* timer runs.
C31_OneConnectAtATime == Len(pendingConnects) <= 1 /\ timers <= 1

\* C32: a relayTransaction call that finds no source transaction for its hash
\* (the provider is connected and the hash is not in the transaction map)
\* submits nothing, counts no failure and no retry, starts nothing that waits,
\* and only counts the call in metrics.transactions.
C32_AbsentSkipped ==
    [][(relayCall'.n > relayCall.n /\ connected
          /\ relayCall'.hash \notin SeqToSet(transactions))
          => /\ submitted' = submitted
             /\ tasks' = tasks
             /\ failedChains' = failedChains
             /\ metrics' = [metrics EXCEPT !.transactions = @ + 1]]_vars

\* C32, reached: an absent hash was given while other transactions exist.
C32_AbsentGiven ==
    /\ relayCall.n = 1 /\ relayCall.hash \notin SeqToSet(transactions)
    /\ transactions # <<>> /\ connected /\ metrics.failed = 0
    /\ metrics.transactions > Len(transactions)

\* C33: a send(method, params) on the connected provider changes nothing of
\* the simulator; it fails with the not-implemented error exactly for the
\* method names outside the supported set, and for eth_chainId it answers the
\* configured chain id (in hexadecimal).
C33_UnsupportedRejected ==
    [][(rpc'.flip # rpc.flip /\ rpc'.call \in Methods /\ connected)
          => /\ UNCHANGED <<simVars, wsVars>>
             /\ (rpc'.result = NotImplemented) <=>
                   rpc'.call \notin {"eth_chainId", "eth_networkVersion", "net_version",
                                     "eth_blockNumber", "eth_getBlockByNumber",
                                     "eth_getTransactionByHash",
                                     "eth_getTransactionReceipt", "net_listening",
                                     "eth_syncing"}
             /\ rpc'.call = "eth_chainId"
                   => rpc'.result.ok /\ ParseHex(rpc'.result.value) = SourceChainId]_vars

\* C33, reached: an unsupported method was refused by the connected provider
\* after blocks were produced.
C33_UnsupportedWhileConnected ==
    /\ rpc.call = "eth_gasPrice" /\ rpc.result = NotImplemented
    /\ connected /\ blockNumber > 0

\* C34: a submission request built from a source transaction carries its
\* recipient, value, data, gas limit and gas price, and nothing else: no
\* nonce, no chain id, no sender.
C34_RequestDropsSourceFields ==
    request.variant # "none"
        => /\ DOMAIN request.body = {"to", "value", "data", "gasLimit", "gasPrice"}
           /\ request.body.to = srcTx.to

\* C35: whatever the interleaving of block handlers and retries,
\* metrics.retries never exceeds config.metrics.retryAttempts.
C35_RetriesBounded == metrics.retries <= RetryAttempts

\* The ceiling is reached while two relays are under way.
C35_CeilingReachedConcurrently ==
    /\ metrics.retries = RetryAttempts
    /\ BagCardinality(tasks) >= 2
    /\ metrics.failed > RetryAttempts

\* C36: successful + failed never exceeds transactions: every call of
\* relayTransaction adds one to transactions when it starts and at most one
\* to successful + failed when it ends (a call still awaiting the target
\* and a call for an absent transaction add none).
C36_OutcomesWithinCalls ==
    LET inflight == {t \in BagToSet(tasks) : t.pc = "inflight"}
        awaiting == BagCardinality([t \in inflight |-> tasks[t]])
    IN  /\ metrics.successful + metrics.failed <= metrics.transactions
        /\ metrics.successful + metrics.failed + awaiting <= metrics.transactions
        /\ metrics.transactions
               <= metrics.successful + metrics.failed + awaiting + relayCall.n

\* Successes, failures, a relay under way and a skipped absent transaction.
C36_AllOutcomesCounted ==
    /\ metrics.successful > 0
    /\ metrics.failed > 0
    /\ \E t \in BagToSet(tasks) : t.pc = "inflight"
    /\ relayCall.n > 0
    /\ metrics.transactions > metrics.successful + metrics.failed + BagCardinality(tasks)

\* C37: when every awaited provider call and every timer completes, every
\* call of relayTransaction returns: whenever relays are under way, a state
\* follows where none is.
C37_RelayReturns == (BagToSet(tasks) # {}) ~> (BagToSet(tasks) = {})

\* Every relay has returned, the last ones after the retries were used up.
C37_ReturnedAfterRetries ==
    /\ BagToSet(tasks) = {}
    /\ relayCall.n > 0
    /\ metrics.retries = RetryAttempts
    /\ metrics.failed > RetryAttempts

\* C38: in a MockRelay the transactions counted successful or failed are
\* never more than the transactions counted started, also when stop()
\* disconnects the provider while a block is being processed.
C38_OutcomesWithinStarted ==
    mrMetrics.successful + mrMetrics.failed <= mrMetrics.started

\* C39: a subscriber of the provider's block event gets each block number
\* once, whatever disconnect/connect cycles the provider has gone through:
\* no number is delivered twice.
C39_DeliveredOnce ==
    \A i, j \in 1..Len(blockEvents) : blockEvents[i] = blockEvents[j] => i = j

\* C40: a TransactionMonitor's reconnectAttempts never exceeds
\* maxReconnectAttempts and its reconnectDelay is always 1000 * 2^reconnectAttempts;
\* a step that lowers either of them, or that is an 'open' after reconnection
\* timers were set, leaves reconnectAttempts = 0 and reconnectDelay = 1000.
C40_DelayTracksAttempts ==
    /\ [](/\ tmAttempts <= MaxReconnectAttempts
          /\ tmDelay = ReconnectDelay * 2^tmAttempts)
    /\ [][(\/ tmAttempts' < tmAttempts
           \/ tmDelay' < tmDelay
           \/ (tmSchedule # <<>> /\ tmSchedule' = <<>>))
             => (tmAttempts' = 0 /\ tmDelay' = ReconnectDelay)]_vars

\* The ceiling of attempts is reached, with the delay doubled at every one.
C40_CeilingReached ==
    /\ tmAttempts = MaxReconnectAttempts
    /\ Len(tmSchedule) = MaxReconnectAttempts
    /\ tmDelay > ReconnectDelay

====
